---- MODULE Spec2Model ----
(***************************************************************************)
(* A model of the mock ComfyUI job queue of src/main.go: the ComfyUIMock   *)
(* struct (prompts, queueID, runningTask, mu), the three HTTP handlers and *)
(* the processQueue goroutines that handlePrompt and processQueue spawn.   *)
(*                                                                         *)
(* Goroutines interleave at the granularity of their accesses to shared    *)
(* memory.  A critical section none of whose intermediate states can be    *)
(* seen by an unlocked reader is one action guarded by the mutex being     *)
(* free; processPrompt's critical section, whose writes handleHistory      *)
(* reads without the mutex, is one action per write with the mutex held.   *)
(* The unlocked reads (main.go:93, 100-101, 163, 164) are actions that     *)
(* read whatever the shared variable holds when they are scheduled.        *)
(***************************************************************************)
EXTENDS Naturals, Sequences, FiniteSets, TLC

\* How many Submit requests the model accepts, and how many processQueue
\* goroutines run at once (further spawned goroutines wait in `triggers`).
MaxJobs == 4
MaxWorkers == 2

\* A nil pointer, a nil map, an empty JSON object.
Nil == << >>

\* uuid.New().String() values, as <<first 8 characters, the rest>>.
UUIDs == {<<"aaaaaaaa", "1">>, <<"aaaaaaaa", "2">>, <<"bbbbbbbb", "1">>,
          <<"bbbbbbbb", "2">>, <<"cccccccc", "1">>, <<"cccccccc", "2">>}

\* The JSON bodies POST /prompt is called with.  The handlers pass client_id
\* and prompt through without reading them.
Requests == {[client_id |-> "c1", prompt |-> "a"]}

Workers == 1..MaxWorkers

VARIABLES
    prompts,      \* ComfyUIMock.prompts: promptID -> PromptInfo
    queueID,      \* ComfyUIMock.queueID
    runningTask,  \* ComfyUIMock.runningTask: a key of prompts (a pointer) or Nil
    mu,           \* ComfyUIMock.mu: 0 when free, else the worker holding it
    triggers,     \* processQueue goroutines spawned by `go` and not yet started
    pc,           \* per running processQueue goroutine: its position
    arg,          \* per goroutine: processPrompt's parameter `prompt`
    crashed,      \* a goroutine panicked: the process has exited
    sourceExists, \* resources/image.jpg can be opened
    outputs,      \* the files of outputs/
    log,          \* promptIDs whose copy error was printed (main.go:186)
    hist,         \* the handleHistory request in flight
    resp          \* the last HTTP response sent

vars == <<prompts, queueID, runningTask, mu, triggers, pc, arg, crashed,
          sourceExists, outputs, log, hist, resp>>

----------------------------------------------------------------------------
\* promptID[:8]
Prefix8(promptID) == promptID[1]

\* generateMockOutput: the map with the one key "9", as <<key, value>>.
generateMockOutput(promptID) ==
    <<"9", [images |-> <<[filename |-> <<Prefix8(promptID), ".png">>,
                         subfolder |-> "", type |-> "output"]>>]>>

\* generatePromptID: uuid.New() returns an identifier not handed out before.
generatePromptID == {CHOOSE u \in UUIDs \ DOMAIN prompts : TRUE}

\* The literal with the ID field left out: Go's zero value.
NewPromptInfo_NoID(request, promptID, id) ==
    [Prompt |-> request.prompt, ClientID |-> request.client_id,
     Status |-> "pending", Output |-> Nil, ID |-> 0, PromptID |-> promptID]

\* The literal with the ClientID field left out.
NewPromptInfo_NoClient(request, promptID, id) ==
    [Prompt |-> request.prompt, ClientID |-> "",
     Status |-> "pending", Output |-> Nil, ID |-> id, PromptID |-> promptID]

\* The PromptInfo literal of handlePrompt.
NewPromptInfo(request, promptID, id) ==
    [Prompt |-> request.prompt, ClientID |-> request.client_id,
     Status |-> "pending", Output |-> Nil, ID |-> id, PromptID |-> promptID]

\* NewComfyUIMock, and no request or goroutine in flight.
Init ==
    /\ prompts = << >>
    /\ queueID = 0
    /\ runningTask = Nil
    /\ mu = 0
    /\ triggers = 0
    /\ pc = [w \in Workers |-> "idle"]
    /\ arg = [w \in Workers |-> Nil]
    /\ crashed = FALSE
    /\ sourceExists \in BOOLEAN
    /\ outputs = {}
    /\ log = {}
    /\ hist = [pc |-> "idle", promptID |-> Nil, prompt |-> Nil]
    /\ resp = [kind |-> "none"]

----------------------------------------------------------------------------
(* POST /prompt *)

\* handlePrompt, main.go:62-78, for a body that binds.  The `go` statement
\* leaves one more processQueue goroutine to be scheduled.
handlePrompt(request) ==
    /\ ~crashed
    /\ mu = 0
    /\ Cardinality(DOMAIN prompts) < MaxJobs
    /\ \E promptID \in generatePromptID :
          /\ queueID' = queueID + 1
          /\ prompts' = prompts @@
                 (promptID :> NewPromptInfo(request, promptID, queueID + 1))
          /\ resp' = [kind |-> "prompt", code |-> 200, prompt_id |-> promptID]
    /\ triggers' = triggers + 1
    /\ UNCHANGED <<runningTask, mu, pc, arg, crashed, sourceExists, outputs,
                   log, hist>>

----------------------------------------------------------------------------
(* processQueue and processPrompt *)

\* The keys whose PromptInfo has Status == "pending" (main.go:131, 155).
Pending == {id \in DOMAIN prompts : prompts[id].Status = "pending"}

\* The pick with the status write left out.
MarkProcessing_Skipped(ps, id) == ps

\* main.go:157, prompt.Status = "processing".
MarkProcessing(ps, id) == [ps EXCEPT ![id].Status = "processing"]

\* A finished job put back in line.
MarkCompleted_Requeued(ps, id) == [ps EXCEPT ![id].Status = "pending"]

\* main.go:180, prompt.Status = "completed".
MarkCompleted(ps, id) == [ps EXCEPT ![id].Status = "completed"]

\* The completion with the result never stored.
StoreOutput_Skipped(ps, id) == ps

\* main.go:181, prompt.Output = generateMockOutput(prompt.PromptID).
StoreOutput(ps, id) ==
    [ps EXCEPT ![id].Output = generateMockOutput(ps[id].PromptID)]

\* A spawned processQueue goroutine can start as w: one is waiting, and w is
\* the first free slot (the slots are interchangeable).
CanStart(w) ==
    /\ ~crashed /\ pc[w] = "idle" /\ triggers > 0
    /\ \A v \in Workers : v < w => pc[v] # "idle"

\* main.go:148-152: the goroutine starts, locks, finds a running task and
\* returns.
PQBusy(w) ==
    /\ CanStart(w) /\ mu = 0
    /\ runningTask # Nil
    /\ triggers' = triggers - 1
    /\ UNCHANGED <<prompts, queueID, runningTask, mu, pc, arg, crashed,
                   sourceExists, outputs, log, hist, resp>>

\* main.go:148-161 with a pending prompt: the range over the map meets some
\* pending prompt first, which becomes the running task.
PQPick(w) ==
    /\ CanStart(w) /\ mu = 0
    /\ runningTask = Nil
    /\ \E id \in Pending :
          /\ runningTask' = id
          /\ prompts' = MarkProcessing(prompts, id)
    /\ triggers' = triggers - 1
    /\ pc' = [pc EXCEPT ![w] = "check"]
    /\ UNCHANGED <<queueID, mu, arg, crashed, sourceExists, outputs, log,
                   hist, resp>>

\* main.go:148-161 with no pending prompt: the loop changes nothing.
PQNone(w) ==
    /\ CanStart(w) /\ mu = 0
    /\ runningTask = Nil
    /\ Pending = {}
    /\ triggers' = triggers - 1
    /\ pc' = [pc EXCEPT ![w] = "check"]
    /\ UNCHANGED <<prompts, queueID, runningTask, mu, arg, crashed,
                   sourceExists, outputs, log, hist, resp>>

\* main.go:163: m.runningTask is read after the unlock, without the mutex.
PQCheck(w) ==
    /\ ~crashed /\ pc[w] = "check"
    /\ pc' = [pc EXCEPT ![w] = IF runningTask # Nil THEN "call" ELSE "idle"]
    /\ UNCHANGED <<prompts, queueID, runningTask, mu, triggers, arg, crashed,
                   sourceExists, outputs, log, hist, resp>>

\* main.go:164: m.runningTask is read again, as processPrompt's argument.
PQCall(w) ==
    /\ ~crashed /\ pc[w] = "call"
    /\ arg' = [arg EXCEPT ![w] = runningTask]
    /\ pc' = [pc EXCEPT ![w] = "sleep"]
    /\ UNCHANGED <<prompts, queueID, runningTask, mu, triggers, crashed,
                   sourceExists, outputs, log, hist, resp>>

\* The mutex taken before the sleep instead of after it.
PPLock_BeforeSleep(w) ==
    /\ ~crashed /\ pc[w] = "sleep"
    /\ \/ mu = 0 /\ mu' = w /\ pc' = pc
       \/ mu = w /\ mu' = mu /\ pc' = [pc EXCEPT ![w] = "status"]
    /\ UNCHANGED <<prompts, queueID, runningTask, triggers, arg, crashed,
                   sourceExists, outputs, log, hist, resp>>

\* main.go:174-177: the sleep ends and the mutex is taken.
PPLock(w) ==
    /\ ~crashed /\ pc[w] = "sleep" /\ mu = 0
    /\ mu' = w
    /\ pc' = [pc EXCEPT ![w] = "status"]
    /\ UNCHANGED <<prompts, queueID, runningTask, triggers, arg, crashed,
                   sourceExists, outputs, log, hist, resp>>

\* main.go:180 on a nil prompt: the goroutine panics, the deferred Unlock
\* runs and the process exits.
PPPanic(w) ==
    /\ ~crashed /\ pc[w] = "status" /\ arg[w] = Nil
    /\ crashed' = TRUE
    /\ mu' = 0
    /\ UNCHANGED <<prompts, queueID, runningTask, triggers, pc, arg,
                   sourceExists, outputs, log, hist, resp>>

\* main.go:180.
PPStatus(w) ==
    /\ ~crashed /\ pc[w] = "status" /\ arg[w] # Nil
    /\ prompts' = MarkCompleted(prompts, arg[w])
    /\ pc' = [pc EXCEPT ![w] = "output"]
    /\ UNCHANGED <<queueID, runningTask, mu, triggers, arg, crashed,
                   sourceExists, outputs, log, hist, resp>>

\* main.go:181.
PPOutput(w) ==
    /\ ~crashed /\ pc[w] = "output"
    /\ prompts' = StoreOutput(prompts, arg[w])
    /\ pc' = [pc EXCEPT ![w] = "copy"]
    /\ UNCHANGED <<queueID, runningTask, mu, triggers, arg, crashed,
                   sourceExists, outputs, log, hist, resp>>

\* copyAndRenameImage's destination, "output_" + promptID[:8] + ".jpg".
DestName(promptID) == <<"output_", Prefix8(promptID), ".jpg">>

\* A copy error that makes the goroutine return at once.
AfterCopy_Abort(err) == IF err THEN "idle" ELSE "clear"

\* Where processPrompt's caller continues after the copy, whatever err was.
AfterCopy(err) == "clear"

\* main.go:184-188: the copy succeeds and the deferred Unlock runs.
PPCopyOk(w) ==
    /\ ~crashed /\ pc[w] = "copy"
    /\ sourceExists
    /\ outputs' = outputs \cup {DestName(prompts[arg[w]].PromptID)}
    /\ mu' = 0
    /\ pc' = [pc EXCEPT ![w] = AfterCopy(FALSE)]
    /\ UNCHANGED <<prompts, queueID, runningTask, triggers, arg, crashed,
                   sourceExists, log, hist, resp>>

\* main.go:184-188: os.Open fails (main.go:220-223), the error is printed
\* and the deferred Unlock runs.
PPCopyFail(w) ==
    /\ ~crashed /\ pc[w] = "copy"
    /\ ~sourceExists
    /\ log' = log \cup {prompts[arg[w]].PromptID}
    /\ mu' = 0
    /\ pc' = [pc EXCEPT ![w] = AfterCopy(TRUE)]
    /\ UNCHANGED <<prompts, queueID, runningTask, triggers, arg, crashed,
                   sourceExists, outputs, hist, resp>>

\* main.go:165-168: the marker is cleared under the mutex and the loop is
\* triggered again; the goroutine ends.
PQClear(w) ==
    /\ ~crashed /\ pc[w] = "clear" /\ mu = 0
    /\ runningTask' = Nil
    /\ triggers' = triggers + 1
    /\ pc' = [pc EXCEPT ![w] = "idle"]
    /\ arg' = [arg EXCEPT ![w] = Nil]
    /\ UNCHANGED <<prompts, queueID, mu, crashed, sourceExists, outputs, log,
                   hist, resp>>

----------------------------------------------------------------------------
(* GET /history/:prompt_id *)

\* The request the client waits on has no reply yet.
NoReply == [kind |-> "none"]

\* No handleHistory call in flight.
HIdle == [pc |-> "idle", promptID |-> Nil, prompt |-> Nil]

\* main.go:82-86 when the key exists: the map lookup under the mutex;
\* `prompt` is the pointer found.
HLookup(promptID) ==
    /\ ~crashed /\ hist.pc = "idle" /\ mu = 0
    /\ promptID \in DOMAIN prompts
    /\ hist' = [pc |-> "status", promptID |-> promptID, prompt |-> promptID]
    /\ resp' = NoReply
    /\ UNCHANGED <<prompts, queueID, runningTask, mu, triggers, pc, arg,
                   crashed, sourceExists, outputs, log>>

\* main.go:89, the 404 reply.
NotFoundReply == [kind |-> "history", code |-> 404, error |-> "Prompt not found"]

\* main.go:94, the 200 reply gin.H{}.
EmptyReply == [kind |-> "history", code |-> 200, body |-> Nil]

\* main.go:98-111, the 200 reply with the one key promptID, as <<key, value>>.
HistoryRecord(promptID, info) ==
    [kind |-> "history", code |-> 200,
     body |-> <<promptID,
                [prompt |-> info.Prompt,
                 outputs |-> info.Output,
                 status |-> [status_str |-> "success", completed |-> TRUE,
                             messages |-> <<<<"execution_start", promptID>>,
                                            <<"execution_cached",
                                              <<"4", "7", "5", "6">>,
                                              promptID>>>>]]>>]

\* An unknown key answered like a job that is not completed yet.
HNotFound_Empty(promptID) ==
    /\ ~crashed /\ hist.pc = "idle" /\ mu = 0
    /\ promptID \notin DOMAIN prompts
    /\ resp' = EmptyReply
    /\ UNCHANGED <<prompts, queueID, runningTask, mu, triggers, pc, arg,
                   crashed, sourceExists, outputs, log, hist>>

\* main.go:82-91 when the key does not exist: the lookup under the mutex
\* and the 404 reply, which reads no shared state after the unlock.
HNotFound(promptID) ==
    /\ ~crashed /\ hist.pc = "idle" /\ mu = 0
    /\ promptID \notin DOMAIN prompts
    /\ resp' = NotFoundReply
    /\ UNCHANGED <<prompts, queueID, runningTask, mu, triggers, pc, arg,
                   crashed, sourceExists, outputs, log, hist>>

\* main.go:93-96: prompt.Status, read without the mutex, is not "completed".
HNotYet ==
    /\ ~crashed /\ hist.pc = "status" /\ hist.prompt # Nil
    /\ prompts[hist.prompt].Status # "completed"
    /\ resp' = EmptyReply
    /\ hist' = HIdle
    /\ UNCHANGED <<prompts, queueID, runningTask, mu, triggers, pc, arg,
                   crashed, sourceExists, outputs, log>>

\* main.go:93: prompt.Status, read without the mutex, is "completed".
HCompleted ==
    /\ ~crashed /\ hist.pc = "status" /\ hist.prompt # Nil
    /\ prompts[hist.prompt].Status = "completed"
    /\ hist' = [hist EXCEPT !.pc = "build"]
    /\ UNCHANGED <<prompts, queueID, runningTask, mu, triggers, pc, arg,
                   crashed, sourceExists, outputs, log, resp>>

\* main.go:98-111: prompt.Prompt and prompt.Output are read, without the
\* mutex, into the reply.
HBuild ==
    /\ ~crashed /\ hist.pc = "build"
    /\ resp' = HistoryRecord(hist.promptID, prompts[hist.prompt])
    /\ hist' = HIdle
    /\ UNCHANGED <<prompts, queueID, runningTask, mu, triggers, pc, arg,
                   crashed, sourceExists, outputs, log>>

----------------------------------------------------------------------------
(* GET /queue *)

\* The 4-tuple of main.go:122-127 and 132-137.
QueueEntry(info) == <<info.ID, info.PromptID, info.Prompt, <<"9">>>>

\* Some enumeration of a finite set as a sequence.
SetToSeq(S) ==
    CHOOSE q \in [1..Cardinality(S) -> S] : {q[i] : i \in DOMAIN q} = S

\* queueRunning collected by Status, the way queuePending is.
QueueRunning_ByStatus ==
    SetToSeq({QueueEntry(prompts[id]) :
                 id \in {k \in DOMAIN prompts :
                            prompts[k].Status = "processing"}})

\* main.go:118-128: queueRunning, from the running marker alone.
QueueRunning ==
    IF runningTask # Nil THEN <<QueueEntry(prompts[runningTask])>> ELSE << >>

\* main.go:119, 130-139: queuePending.  The slice's order is the map's
\* iteration order, which Go leaves unspecified: the entries as a set.
QueuePending == {QueueEntry(prompts[id]) : id \in Pending}

\* A snapshot that also takes the running job off the marker.
handleQueue_Draining ==
    /\ ~crashed /\ mu = 0
    /\ resp' = [kind |-> "queue", code |-> 200,
                queue_running |-> QueueRunning,
                queue_pending |-> QueuePending]
    /\ runningTask' = Nil
    /\ UNCHANGED <<prompts, queueID, mu, triggers, pc, arg,
                   crashed, sourceExists, outputs, log, hist>>

\* handleQueue, main.go:114-145, all of it under the mutex.
handleQueue ==
    /\ ~crashed /\ mu = 0
    /\ resp' = [kind |-> "queue", code |-> 200,
                queue_running |-> QueueRunning,
                queue_pending |-> QueuePending]
    /\ UNCHANGED <<prompts, queueID, runningTask, mu, triggers, pc, arg,
                   crashed, sourceExists, outputs, log, hist>>

----------------------------------------------------------------------------
\* One step of processQueue goroutine w.
Worker(w) ==
    \/ PQBusy(w) \/ PQPick(w) \/ PQNone(w) \/ PQCheck(w) \/ PQCall(w)
    \/ PPLock(w) \/ PPPanic(w) \/ PPStatus(w) \/ PPOutput(w)
    \/ PPCopyOk(w) \/ PPCopyFail(w) \/ PQClear(w)

\* One step of a GET /history request.
handleHistory ==
    \/ \E promptID \in UUIDs : HLookup(promptID) \/ HNotFound(promptID)
    \/ HNotYet \/ HCompleted \/ HBuild

\* The job queue itself: submissions and the processQueue goroutines.
Next ==
    \/ \E request \in Requests : handlePrompt(request)
    \/ \E w \in Workers : Worker(w)

Spec == Init /\ [][Next]_vars

\* The job queue observed through GET /queue.
NextQueue == Next \/ handleQueue

SpecQueue == Init /\ [][NextQueue]_vars

\* The job queue observed through GET /history.
NextHistory == Next \/ handleHistory

SpecHistory == Init /\ [][NextHistory]_vars

\* The job queue observed through both GET /queue and GET /history.
NextAll == Next \/ handleQueue \/ handleHistory

SpecAll == Init /\ [][NextAll]_vars

----------------------------------------------------------------------------
(* Properties *)

\* The keys whose PromptInfo has the given Status.
WithStatus(st) == {id \in DOMAIN prompts : prompts[id].Status = st}

\* The promptIDs a queue list (a sequence or a set of 4-tuples) names.
ListedSeq(list) == {list[i][2] : i \in 1..Len(list)}
ListedSet(list) == {e[2] : e \in list}
Listed(reply) ==
    ListedSeq(reply.queue_running) \cup ListedSet(reply.queue_pending)

\* C1: in every reachable state at most one job of the table has
\* Status = "processing".
C1_AtMostOneProcessing == Cardinality(WithStatus("processing")) <= 1

\* The process is running and no processQueue goroutine can take another
\* step: none is in flight and none waits to start.
Quiescent == ~crashed /\ \A w \in Workers : ~ENABLED Worker(w)

\* C2: every submitted job reaches Status = "completed" with a result.  The
\* goroutines' steps are finitely many once submissions stop, so under fair
\* scheduling they run until none can step; the claim then says that in such
\* a state no job of the table is left pending, processing or without result.
C2_EverySubmittedJobCompletes ==
    Quiescent =>
        \A id \in DOMAIN prompts :
            prompts[id].Status = "completed" /\ prompts[id].Output # Nil

\* C3: a queue snapshot lists no job that is completed when it is taken,
\* neither in queue_running nor in queue_pending.
C3_CompletedNeverListed ==
    [][handleQueue => WithStatus("completed") \cap Listed(resp') = {}]_vars

\* C4: a queue snapshot lists, in queue_pending or in queue_running, every
\* job that is pending or processing when it is taken.
C4_UnfinishedAlwaysListed ==
    [][handleQueue =>
         (WithStatus("pending") \cup WithStatus("processing"))
             \subseteq Listed(resp')]_vars

\* C5: no queue snapshot names the same job in queue_running and in
\* queue_pending, and the job the running marker points to is never pending.
C5_RunningNotPending ==
    /\ resp.kind = "queue" =>
           ListedSeq(resp.queue_running) \cap ListedSet(resp.queue_pending) = {}
    /\ runningTask # Nil => prompts[runningTask].Status # "pending"

\* A snapshot taken with a running job and a pending one.
C5_Witness ==
    /\ resp.kind = "queue"
    /\ Len(resp.queue_running) = 1
    /\ resp.queue_pending # {}

\* C6: every queue snapshot has a queue_running list of length 0 or 1.
C6_RunningAtMostOne == resp.kind = "queue" => Len(resp.queue_running) <= 1

\* A snapshot with one running entry, taken while two jobs are processing.
C6_Witness ==
    /\ resp.kind = "queue"
    /\ Len(resp.queue_running) = 1
    /\ Cardinality(WithStatus("processing")) = 2

\* C7: a non-empty history reply is given only for a completed job, and it
\* carries that job's payload and its non-empty result.
C7_HistoryRecordComplete ==
    (resp.kind = "history" /\ resp.code = 200 /\ resp.body # Nil) =>
        /\ resp.body[1] \in WithStatus("completed")
        /\ resp.body[2].prompt = prompts[resp.body[1]].Prompt
        /\ resp.body[2].outputs # Nil

\* C8: whenever the mutex is free, a job has a result exactly when its
\* Status is "completed".
C8_ResultIffCompleted ==
    mu = 0 =>
        \A id \in DOMAIN prompts :
            (prompts[id].Output # Nil) <=> (prompts[id].Status = "completed")

\* The mutex is free with one job completed and another one not.
C8_Witness ==
    /\ mu = 0
    /\ \E id \in DOMAIN prompts : prompts[id].Output # Nil
    /\ \E id \in DOMAIN prompts : prompts[id].Status = "processing"

\* A step of GET /history/promptID: the handler is entered with that key.
HistoryRequest(promptID) == HLookup(promptID) \/ HNotFound(promptID)

\* C9: a history request for a key that is not in the table is answered 404
\* and changes neither the table, nor the running marker, nor the counter.
C9_UnknownIsNotFound ==
    [][\A promptID \in UUIDs :
          (promptID \notin DOMAIN prompts /\ HistoryRequest(promptID)) =>
              /\ resp'.kind = "history" /\ resp'.code = 404
              /\ hist'.pc = "idle"
              /\ UNCHANGED <<prompts, runningTask, queueID>>]_vars

\* A 404 was sent while jobs were in the table.
C9_Witness ==
    /\ resp.kind = "history" /\ resp.code = 404
    /\ DOMAIN prompts # {}

\* C10: a job whose asset copy failed is completed and has its result, the
\* worker goes on from the failed copy to clear the running marker, and
\* clearing it spawns the next processQueue.
C10_CopyFailureIsolated ==
    /\ [](\A id \in log :
            prompts[id].Status = "completed" /\ prompts[id].Output # Nil)
    /\ [][\A w \in Workers :
            /\ PPCopyFail(w) => pc'[w] = "clear"
            /\ (pc[w] = "clear" /\ pc'[w] # "clear") =>
                   runningTask' = Nil /\ triggers' = triggers + 1]_vars

\* Two jobs had their copy fail and the marker is clear again: the loop went
\* on after the first failure.
C10_Witness ==
    /\ Cardinality(log) >= 2
    /\ runningTask = Nil
    /\ \A id \in log : prompts[id].Status = "completed"

\* C11: distinct jobs have distinct sequence numbers, none above the counter,
\* and a job stored by a step gets a number larger than that of every job
\* stored before it.
C11_SequenceNumbersIncrease ==
    /\ [](\A a, b \in DOMAIN prompts :
             /\ prompts[a].ID >= 1 /\ prompts[a].ID <= queueID
             /\ a # b => prompts[a].ID # prompts[b].ID)
    /\ [][\A new \in DOMAIN prompts' \ DOMAIN prompts :
             \A old \in DOMAIN prompts : prompts'[new].ID > prompts[old].ID]_vars

\* Three jobs stored, numbered 1, 2 and 3.
C11_Witness ==
    /\ Cardinality(DOMAIN prompts) = 3
    /\ {prompts[id].ID : id \in DOMAIN prompts} = {1, 2, 3}

\* What GET /queue returns in the current state.
QueueResult == <<QueueRunning, QueuePending>>

\* What a GET /history/{promptID} that no other step interleaves with
\* returns in the current state.
HistoryResult(promptID) ==
    IF promptID \notin DOMAIN prompts THEN NotFoundReply
    ELSE IF prompts[promptID].Status # "completed" THEN EmptyReply
    ELSE HistoryRecord(promptID, prompts[promptID])

\* Every query returns after the step what it returned before it.
ResultsUnchanged ==
    /\ QueueResult' = QueueResult
    /\ \A promptID \in UUIDs : HistoryResult(promptID)' = HistoryResult(promptID)

InProcessPrompt == {w \in Workers : pc[w] \in {"sleep", "status", "output", "copy"}}

\* C13: at most one processQueue goroutine is inside processPrompt at any
\* instant, and no job is taken through processPrompt a second time: the
\* job a goroutine completes is still "processing", not completed already.
C13_OneWorkerOncePerJob ==
    /\ [](Cardinality(InProcessPrompt) <= 1)
    /\ [][\A w \in Workers :
             PPStatus(w) => prompts[arg[w]].Status = "processing"]_vars

\* C14: a picked job runs to completion.  In finite-run form: when no
\* goroutine can take another step, no job is left with
\* Status = "processing".
C14_ProcessingRunsToCompletion == Quiescent => WithStatus("processing") = {}

\* The steps that lock the mutex themselves: the critical sections that are
\* one step each, and processPrompt's Lock.
TakesMutex ==
    \/ \E request \in Requests : handlePrompt(request)
    \/ \E promptID \in UUIDs : HLookup(promptID) \/ HNotFound(promptID)
    \/ handleQueue
    \/ \E w \in Workers :
          PQBusy(w) \/ PQPick(w) \/ PQNone(w) \/ PQClear(w) \/ PPLock(w)

\* A step of the goroutine that holds the mutex.
HolderStep == mu # 0 /\ Worker(mu)

\* C15: every step that reads or writes the table, a job's Status or Output,
\* or the running marker is taken with the mutex held: it either locks the
\* mutex itself or is a step of the goroutine holding it.
C15_AccessUnderMutex == [][TakesMutex \/ HolderStep]_vars

\* A processQueue goroutine starts: main.go:148-161 in one of its three ways.
Trigger(w) == PQBusy(w) \/ PQPick(w) \/ PQNone(w)

\* C16: a processQueue goroutine that starts while some job has
\* Status = "processing" changes no job and not the running marker, so it
\* starts no processing, and it spawns no further goroutine.
C16_TriggerWhileProcessingIsNoOp ==
    [][\A w \in Workers :
          Trigger(w) /\ WithStatus("processing") # {}
          => UNCHANGED <<prompts, runningTask>> /\ triggers' = triggers - 1]_vars

\* C17: a job is stored with Status = "pending", is never removed, and a
\* step changes its Status only from "pending" to "processing" or from
\* "processing" to "completed".
C17_StatusOnlyMovesForward ==
    [][/\ \A id \in DOMAIN prompts' \ DOMAIN prompts :
             prompts'[id].Status = "pending"
       /\ \A id \in DOMAIN prompts :
             /\ id \in DOMAIN prompts'
             /\ \/ prompts'[id].Status = prompts[id].Status
                \/ <<prompts[id].Status, prompts'[id].Status>>
                      \in {<<"pending", "processing">>,
                           <<"processing", "completed">>}]_vars

\* One job has gone all the way to "completed", another has been picked and
\* a third still waits.
C17_Witness ==
    /\ WithStatus("completed") # {}
    /\ WithStatus("processing") # {}
    /\ WithStatus("pending") # {}

\* C18: the table holds exactly as many jobs as there were submissions; a
\* submission adds one job, with the request's client_id and prompt, and
\* leaves every job stored before unchanged; no step changes the client_id
\* or the prompt of a stored job.
C18_NoLostSubmission ==
    /\ [](Cardinality(DOMAIN prompts) = queueID)
    /\ [][\A request \in Requests :
             handlePrompt(request) =>
                 \E new \in DOMAIN prompts' \ DOMAIN prompts :
                    /\ DOMAIN prompts' = DOMAIN prompts \cup {new}
                    /\ prompts'[new].ClientID = request.client_id
                    /\ prompts'[new].Prompt = request.prompt
                    /\ \A old \in DOMAIN prompts :
                          prompts'[old] = prompts[old]]_vars
    /\ [][\A id \in DOMAIN prompts :
             /\ id \in DOMAIN prompts'
             /\ prompts'[id].ClientID = prompts[id].ClientID
             /\ prompts'[id].Prompt = prompts[id].Prompt]_vars

\* Four submissions, the last ones made while earlier jobs were being
\* processed, and four jobs in the table.
C18_Witness ==
    /\ queueID = 4
    /\ Cardinality(DOMAIN prompts) = 4
    /\ WithStatus("completed") # {}
    /\ \E w \in Workers : pc[w] # "idle"

\* The goroutines in processPrompt's sleep, main.go:174-175.
Sleeping == {w \in Workers : pc[w] = "sleep"}

\* POST /prompt, GET /queue and GET /history of any id can take the mutex now.
HandlersCanRun ==
    /\ ENABLED handleQueue
    /\ \A promptID \in UUIDs : ENABLED (HLookup(promptID) \/ HNotFound(promptID))
    /\ Cardinality(DOMAIN prompts) < MaxJobs
          => \A request \in Requests : ENABLED handlePrompt(request)

\* C19: a goroutine in processPrompt's sleep does not hold the mutex, and
\* while one sleeps and the mutex is free, POST /prompt, GET /history and
\* GET /queue can each take it.
C19_NoMutexDuringSleep ==
    /\ \A w \in Sleeping : mu # w
    /\ (Sleeping # {} /\ mu = 0 /\ ~crashed) => HandlersCanRun

\* A goroutine sleeps on a job that is "processing", the mutex is free and
\* the three handlers can run.
C19_Witness ==
    /\ \E w \in Sleeping : arg[w] # Nil /\ prompts[arg[w]].Status = "processing"
    /\ mu = 0
    /\ Cardinality(DOMAIN prompts) < MaxJobs
    /\ HandlersCanRun

\* C20: no goroutine is inside processPrompt with a nil prompt, and the
\* process never panics on one.
C20_NeverNilPrompt ==
    /\ \A w \in InProcessPrompt : arg[w] # Nil
    /\ ~crashed

====
